---- MODULE Spec2Model ----
(***************************************************************************)
(* Model of temperature_notifier.py: TempMonitor, a single-instance-       *)
(* guarded read / evaluate / notify cycle, run by several OS processes     *)
(* that share one lock marker file (/tmp/TempMonitor.lock).                *)
(*                                                                         *)
(* A process is one invocation of the script (__main__, lines 177-195).    *)
(* Its steps are the statements of TempMonitor.run between which another   *)
(* process can run or a signal can be delivered.  Results of calls to the  *)
(* outside world (vcgencmd, the Telegram API, fcntl.lockf) are inputs.     *)
(***************************************************************************)
EXTENDS Integers, Sequences, FiniteSets, TLC

VARIABLES
    config_file,      \* the parsed content of the file at --config_file
    thresholds_arg,   \* the temp_thresholds argument of TempMonitor(...)
    marker,           \* the file at self.lock_file: its creator, or NoMarker
    pc,               \* pc[p]: position of process p in __main__ / run()
    hpc,              \* hpc[p]: position of the innermost _signal_handler frame
    exc,              \* exc[p]: exception in flight or being handled in run()
    fd,               \* fd[p]: state of lock_file_descriptor
    locked,           \* locked[p]: p holds the advisory lock taken by lockf
    bot_token,        \* self.bot_token
    chat_id,          \* self.chat_id
    temp_thresholds,  \* self.temp_thresholds
    temps,            \* temps[p]: the results of get_temp() so far, in order
    notes,            \* notes[p]: the requests.get calls so far, in order
    evals,            \* evals[p]: number of calls of monitor_temp
    sigs,             \* sigs[p]: number of signals delivered to p
    acquired,         \* acquired[p]: os.open and lockf both succeeded
    outcome,          \* outcome[p]: how run() returned
    exitCode,         \* exitCode[p]: exit status of the process
    runs,             \* runs[p]: number of the invocation p is executing
    started,          \* number of invocations started on the host so far
    delivered,        \* number of signals delivered on the host so far
    released          \* number of invocations that ended DONE or FAILED

vars == <<config_file, thresholds_arg, marker, pc, hpc, exc, fd, locked,
          bot_token, chat_id, temp_thresholds, temps, notes, evals, sigs,
          acquired, outcome, exitCode, runs, started, delivered, released>>

(***************************************************************************)
(* Bounds of the model.                                                    *)
(***************************************************************************)
MaxStarts == 2      \* invocations of the script on the host
MaxSignals == 2     \* signals delivered on the host

\* The invocations that can be alive at the same time.
Procs == {"a", "b"}

(***************************************************************************)
(* Values.                                                                 *)
(***************************************************************************)
\* A reading is <<>> (Python None) or <<v>> (a float v, here in whole degrees).
None == <<>>
Readings == {<<60>>, <<85>>}
\* The readings of the single-invocation specification: below, at, between
\* and above the thresholds.
AllReadings == {<<50>>, <<60>>, <<65>>, <<70>>, <<75>>, <<80>>, <<85>>}

SIGINT == 2
SIGTERM == 15
Signals == {SIGINT, SIGTERM}

NoMarker == <<>>
NotExited == -1
HTTP_OK == 200
\* Outcome of requests.get: a status code, or RequestException raised.
RequestException == 0
Statuses == {HTTP_OK, 500, RequestException}

(***************************************************************************)
(* Configuration file (configparser).  A value is a sequence of            *)
(* characters; "q" stands for the double quote character.                  *)
(***************************************************************************)
Q == "q"
ConfigFiles ==
    { [section |-> FALSE, keys |-> {}, bot_token |-> <<>>, chat_id |-> <<>>],
      [section |-> TRUE, keys |-> {"chat_id"},
       bot_token |-> <<>>, chat_id |-> <<"7">>],
      [section |-> TRUE, keys |-> {"bot_token"},
       bot_token |-> <<Q, "t", Q>>, chat_id |-> <<>>],
      [section |-> TRUE, keys |-> {"bot_token", "chat_id"},
       bot_token |-> <<Q, "t", Q>>, chat_id |-> <<Q, "7", Q>>],
      [section |-> TRUE, keys |-> {"bot_token", "chat_id"},
       bot_token |-> <<Q, Q>>, chat_id |-> <<>>] }

\* An attribute that has not been assigned.
Unset == <<"unset">>

RECURSIVE LStrip(_)
\* str.lstrip('"')
LStrip(s) == IF s # <<>> /\ Head(s) = Q THEN LStrip(Tail(s)) ELSE s

RECURSIVE RStrip(_)
\* str.rstrip('"')
RStrip(s) ==
    IF s # <<>> /\ s[Len(s)] = Q THEN RStrip(SubSeq(s, 1, Len(s) - 1)) ELSE s

\* str.strip('"'), lines 43-44
Strip(s) == RStrip(LStrip(s))

\* The condition of line 33-34: the section or one of the keys is missing.
ConfigMissing(cf) ==
    \/ ~cf.section
    \/ "bot_token" \notin cf.keys
    \/ "chat_id" \notin cf.keys

\* Python's None as the value of an attribute; no string equals it.
PyNone == <<"None">>

\* The condition of line 82, on the values _read_config assigned.
CredentialsNone(tok, chat) == tok = PyNone \/ chat = PyNone

\* _load_telegram_config raises ValueError (from _read_config, line 40, or
\* from line 85).
ConfigFails(cf) ==
    \/ ConfigMissing(cf)
    \/ CredentialsNone(Strip(cf.bot_token), Strip(cf.chat_id))

(***************************************************************************)
(* Threshold tables: a dict, iterated in insertion order, is a sequence of *)
(* entries with distinct keys.                                             *)
(***************************************************************************)
Message(t) ==
    CASE t = 80 -> "TEMPERATURE IS VERY HIGH"
      [] t = 70 -> "TEMPERATURE IS HIGH"
      [] OTHER  -> "TEMPERATURE IS CLIMBING. Keep an eye on it"

Entry(t) == [threshold |-> t, message |-> Message(t)]

\* Lines 23-27.
DefaultThresholds == <<Entry(80), Entry(70), Entry(60)>>

\* The temp_thresholds argument: <<>> for None (lines 13, 192-194: __main__
\* passes none), <<T>> for a dict T.
NoArg == <<>>

Thresholds == {60, 70, 80}

RECURSIVE Tables(_)
\* The dicts of at most n entries with keys in Thresholds, in every
\* insertion order.
Tables(n) ==
    IF n = 0 THEN {<<>>}
    ELSE LET shorter == Tables(n - 1)
         IN  shorter \cup
             { Append(T, Entry(t)) :
                 T \in {U \in shorter : Len(U) = n - 1},
                 t \in Thresholds }

\* Keys of a dict are distinct.
IsDict(T) == \A i, j \in 1..Len(T) : T[i].threshold = T[j].threshold => i = j

TableArgs ==
    {NoArg} \cup
    { <<T>> : T \in {U \in Tables(Cardinality(Thresholds)) : IsDict(U)} }

(***************************************************************************)
(* Notification bodies.                                                    *)
(***************************************************************************)
\* Line 128: the f-string embeds threshold, message and temp.
WarningBody(entry, temp) ==
    [kind |-> "warning", threshold |-> entry.threshold,
     message |-> entry.message, temp |-> temp]

\* Line 163.
ErrorBody ==
    [kind |-> "error", threshold |-> 0,
     message |-> "Failed to get temperature from device.", temp |-> None]

\* Line 75.
StoppedBody ==
    [kind |-> "stopped", threshold |-> 0,
     message |-> "Temperature Notifier Stopped.", temp |-> None]

RECURSIVE FirstExceededOrEqual(_, _, _)
\* Variant: the comparison is >= instead of >.
FirstExceededOrEqual(temp, table, i) ==
    IF i > Len(table) THEN 0
    ELSE IF temp[1] >= table[i].threshold THEN i
    ELSE FirstExceededOrEqual(temp, table, i + 1)

RECURSIVE FirstExceeded(_, _, _)
\* The loop of lines 124-129 from entry i on: the index of the entry at which
\* the loop breaks, or 0 when it runs off the end of the table.
FirstExceeded(temp, table, i) ==
    IF i > Len(table) THEN 0
    ELSE IF temp[1] > table[i].threshold THEN i
    ELSE FirstExceeded(temp, table, i + 1)

\* A monitor_temp without the return of line 122: the absent reading goes on
\* to the table and is reported against its first entry.
monitor_tempWithoutReturn(temp, table) ==
    IF temp = None
    THEN IF table = <<>> THEN <<>> ELSE <<WarningBody(table[1], temp)>>
    ELSE LET i == FirstExceeded(temp, table, 1)
         IN  IF i = 0 THEN <<>> ELSE <<WarningBody(table[i], temp)>>

\* monitor_temp, lines 119-129: the bodies it passes to send_notification.
monitor_temp(temp, table) ==
    IF temp = None THEN <<>>
    ELSE LET i == FirstExceeded(temp, table, 1)
         IN  IF i = 0 THEN <<>> ELSE <<WarningBody(table[i], temp)>>

(***************************************************************************)
(* The lock marker and the positions of run().                             *)
(***************************************************************************)
\* The marker file created by the current invocation of p.
Inode(p) == <<p, runs[p]>>

\* Variant: O_EXCL left out of the flags, so an existing file is opened.
ExclCreateNeverFails(m) == FALSE

\* os.open with O_CREAT | O_EXCL (lines 133-134) raises OSError exactly when
\* the file exists.
ExclCreateFails(m) == m # NoMarker

\* Variant: the descriptor is never closed.
DescriptorLeftOpen(f) == f

\* os.close (line 168) on the descriptor.
AfterClose(f) == "closed"

\* Variant: the file is not deleted.
FileKept(m) == m

\* os.remove (line 169) of the path: whatever file was there is gone.
AfterRemove(m) == NoMarker

\* Variant: after the IOError of lockf the cycle goes on.
LockRefusedGoesOn == "read1"

\* Line 145: after the IOError of lockf, run() returns.
AfterLockRefused == "returned"

\* Variant: a second None is passed on to monitor_temp.
RetryNeverRaises(t) == FALSE

\* Line 153: the second reading is None too, so line 155 raises ValueError.
RetryRaises(t) == t = None

\* Variant: the script exits with 1 after a skipped or failed cycle.
ExitStatusByOutcome(out) == IF out \in {"SKIPPED", "FAILED"} THEN 1 ELSE 0

\* Line 195 is the last statement and run() returns None on every path: the
\* interpreter exits with 0 whatever the outcome of the cycle.
ExitStatus(out) == 0

\* Positions inside the try statement of lines 147-163 (its body and its
\* except clauses): an exception leaving them runs the finally clause.
InTry ==
    {"read1", "read2", "monitor", "warn_inflight", "except", "err_inflight"}

\* Positions between the successful lockf and the end of the finally clause.
InCycle == InTry \cup {"finally", "remove"}

\* Where SystemExit, raised by exit(0) of line 76, takes run() from position
\* at: into the finally clause when the try statement encloses it, else out
\* of run() and of the process (the except clause of line 171 catches
\* Exception, which SystemExit is not).
UnwindTo(at) == IF at \in InTry THEN "finally" ELSE "exited"

\* The handlers of lines 20-21 are installed from the end of __init__ on.
Installed(p) == pc[p] \notin {"init", "exited"}

\* The record of one requests.get call.
Note(body) == [body |-> body, status |-> "inflight"]

StatusOf(code) ==
    IF code = HTTP_OK THEN "ok"
    ELSE IF code = RequestException THEN "transport_error"
    ELSE "http_error"

\* The last call of notes[p] returns with `code`.
Completed(ns, code) == [ns EXCEPT ![Len(ns)].status = StatusOf(code)]

(***************************************************************************)
(* Initial state: the script has not been started yet.                     *)
(***************************************************************************)
Init ==
    /\ config_file \in ConfigFiles
    /\ thresholds_arg = NoArg
    /\ marker = NoMarker
    /\ pc = [p \in Procs |-> "exited"]
    /\ hpc = [p \in Procs |-> "none"]
    /\ exc = [p \in Procs |-> "none"]
    /\ fd = [p \in Procs |-> "none"]
    /\ locked = [p \in Procs |-> FALSE]
    /\ bot_token = [p \in Procs |-> Unset]
    /\ chat_id = [p \in Procs |-> Unset]
    /\ temp_thresholds = [p \in Procs |-> Unset]
    /\ temps = [p \in Procs |-> <<>>]
    /\ notes = [p \in Procs |-> <<>>]
    /\ evals = [p \in Procs |-> 0]
    /\ sigs = [p \in Procs |-> 0]
    /\ acquired = [p \in Procs |-> FALSE]
    /\ outcome = [p \in Procs |-> "NONE"]
    /\ exitCode = [p \in Procs |-> NotExited]
    /\ runs = [p \in Procs |-> 0]
    /\ started = 0
    /\ delivered = 0
    /\ released = 0

\* The process ends: the OS closes its descriptors and drops its locks.
ProcessExit(p, code) ==
    /\ pc' = [pc EXCEPT ![p] = "exited"]
    /\ hpc' = [hpc EXCEPT ![p] = "none"]
    /\ fd' = [fd EXCEPT ![p] = IF @ = "open" THEN "closed" ELSE @]
    /\ locked' = [locked EXCEPT ![p] = FALSE]
    /\ exitCode' = [exitCode EXCEPT ![p] = code]

(***************************************************************************)
(* __init__, lines 12-27 (with _load_telegram_config and _read_config).    *)
(***************************************************************************)
Construct(p) ==
    /\ pc[p] = "init"
    /\ IF ConfigFails(config_file)
       THEN \* ValueError leaves __main__: traceback, exit status 1
            /\ ProcessExit(p, 1)
            /\ UNCHANGED <<bot_token, chat_id, temp_thresholds>>
       ELSE /\ bot_token' =
                  [bot_token EXCEPT ![p] = Strip(config_file.bot_token)]
            /\ chat_id' = [chat_id EXCEPT ![p] = Strip(config_file.chat_id)]
            /\ temp_thresholds' =
                  [temp_thresholds EXCEPT
                     ![p] = IF thresholds_arg = NoArg THEN DefaultThresholds
                            ELSE thresholds_arg[1]]
            /\ pc' = [pc EXCEPT ![p] = "open"]
            /\ UNCHANGED <<hpc, fd, locked, exitCode>>
    /\ UNCHANGED <<config_file, thresholds_arg, marker, exc, temps, notes,
                   evals, sigs, acquired, outcome, runs, started, delivered,
                   released>>

(***************************************************************************)
(* run(), lines 131-174.                                                   *)
(***************************************************************************)
\* Lines 132-138: the exclusive create of the marker.
OpenLock(p) ==
    /\ pc[p] = "open" /\ hpc[p] = "none"
    /\ IF ExclCreateFails(marker)
       THEN /\ pc' = [pc EXCEPT ![p] = "returned"]
            /\ outcome' = [outcome EXCEPT ![p] = "SKIPPED"]
            /\ UNCHANGED <<marker, fd>>
       ELSE /\ marker' = Inode(p)
            /\ fd' = [fd EXCEPT ![p] = "open"]
            /\ pc' = [pc EXCEPT ![p] = "lockf"]
            /\ UNCHANGED outcome
    /\ UNCHANGED <<config_file, thresholds_arg, hpc, exc, locked, bot_token,
                   chat_id, temp_thresholds, temps, notes, evals, sigs,
                   acquired, exitCode, runs, started, delivered, released>>

\* Lines 140-145: the non-blocking advisory lock; the OS grants or refuses.
LockF(p) ==
    /\ pc[p] = "lockf" /\ hpc[p] = "none"
    /\ \E granted \in BOOLEAN :
         IF granted
         THEN /\ locked' = [locked EXCEPT ![p] = TRUE]
              /\ acquired' = [acquired EXCEPT ![p] = TRUE]
              /\ pc' = [pc EXCEPT ![p] = "read1"]
              /\ UNCHANGED outcome
         ELSE /\ pc' = [pc EXCEPT ![p] = AfterLockRefused]
              /\ outcome' = [outcome EXCEPT ![p] = "SKIPPED"]
              /\ UNCHANGED <<locked, acquired>>
    /\ UNCHANGED <<config_file, thresholds_arg, marker, hpc, exc, fd,
                   bot_token, chat_id, temp_thresholds, temps, notes, evals,
                   sigs, exitCode, runs, started, delivered, released>>

\* Line 148: the first get_temp(); lines 104-117 return None or a float (one
\* of `sensor`).
ReadTempOf(p, sensor) ==
    /\ pc[p] = "read1" /\ hpc[p] = "none"
    /\ \E t \in sensor \cup {None} :
         /\ temps' = [temps EXCEPT ![p] = Append(@, t)]
         /\ pc' = [pc EXCEPT ![p] = IF t = None THEN "read2" ELSE "monitor"]
    /\ UNCHANGED <<config_file, thresholds_arg, marker, hpc, exc, fd, locked,
                   bot_token, chat_id, temp_thresholds, notes, evals, sigs,
                   acquired, outcome, exitCode, runs, started, delivered,
                   released>>

ReadTemp(p) == ReadTempOf(p, Readings)

\* Lines 150-155: sleep, the second get_temp(), ValueError when it is None.
RetryTempOf(p, sensor) ==
    /\ pc[p] = "read2" /\ hpc[p] = "none"
    /\ \E t \in sensor \cup {None} :
         /\ temps' = [temps EXCEPT ![p] = Append(@, t)]
         /\ IF RetryRaises(t)
            THEN /\ exc' = [exc EXCEPT ![p] = "ValueError"]
                 /\ pc' = [pc EXCEPT ![p] = "except"]
            ELSE /\ pc' = [pc EXCEPT ![p] = "monitor"]
                 /\ UNCHANGED exc
    /\ UNCHANGED <<config_file, thresholds_arg, marker, hpc, fd, locked,
                   bot_token, chat_id, temp_thresholds, notes, evals, sigs,
                   acquired, outcome, exitCode, runs, started, delivered,
                   released>>

RetryTemp(p) == RetryTempOf(p, Readings)

\* Line 156: monitor_temp(temp) up to the requests.get of its notification.
Monitor(p) ==
    /\ pc[p] = "monitor" /\ hpc[p] = "none"
    /\ LET bodies == monitor_temp(temps[p][Len(temps[p])], temp_thresholds[p])
       IN  IF bodies = <<>>
           THEN /\ pc' = [pc EXCEPT ![p] = "finally"]
                /\ UNCHANGED notes
           ELSE /\ notes' = [notes EXCEPT ![p] = Append(@, Note(bodies[1]))]
                /\ pc' = [pc EXCEPT ![p] = "warn_inflight"]
    /\ evals' = [evals EXCEPT ![p] = @ + 1]
    /\ UNCHANGED <<config_file, thresholds_arg, marker, hpc, exc, fd, locked,
                   bot_token, chat_id, temp_thresholds, temps, sigs, acquired,
                   outcome, exitCode, runs, started, delivered, released>>

\* Lines 160-163: the except clause up to the requests.get of its notification.
\* (The clause of lines 157-159 has no action: line 20 replaces the default
\* SIGINT handler, so KeyboardInterrupt is never raised inside run().)
HandleError(p) ==
    /\ pc[p] = "except" /\ hpc[p] = "none"
    /\ notes' = [notes EXCEPT ![p] = Append(@, Note(ErrorBody))]
    /\ pc' = [pc EXCEPT ![p] = "err_inflight"]
    /\ UNCHANGED <<config_file, thresholds_arg, marker, hpc, exc, fd, locked,
                   bot_token, chat_id, temp_thresholds, temps, evals, sigs,
                   acquired, outcome, exitCode, runs, started, delivered,
                   released>>

\* Variant: a failed request is sent again.
SendRetriesOnFailure(p) ==
    /\ pc[p] \in {"warn_inflight", "err_inflight"} /\ hpc[p] = "none"
    /\ \E code \in Statuses :
         IF code = HTTP_OK
         THEN /\ notes' = [notes EXCEPT ![p] = Completed(@, code)]
              /\ pc' = [pc EXCEPT ![p] = "finally"]
         ELSE /\ notes' = [notes EXCEPT
                             ![p] = Append(Completed(@, code),
                                           Note(@[Len(@)].body))]
              /\ pc' = [pc EXCEPT ![p] = "finally"]
    /\ UNCHANGED <<config_file, thresholds_arg, marker, hpc, exc, fd, locked,
                   bot_token, chat_id, temp_thresholds, temps, evals, sigs,
                   acquired, outcome, exitCode, runs, started, delivered,
                   released>>

\* send_notification, lines 93-102, called from run(): requests.get returns
\* or raises RequestException; either way send_notification returns.
SendReturns(p) ==
    /\ pc[p] \in {"warn_inflight", "err_inflight"} /\ hpc[p] = "none"
    /\ \E code \in Statuses :
         notes' = [notes EXCEPT ![p] = Completed(@, code)]
    /\ pc' = [pc EXCEPT ![p] = "finally"]
    /\ UNCHANGED <<config_file, thresholds_arg, marker, hpc, exc, fd, locked,
                   bot_token, chat_id, temp_thresholds, temps, evals, sigs,
                   acquired, outcome, exitCode, runs, started, delivered,
                   released>>

\* Lines 164-168: the finally clause up to os.close.
CloseLock(p) ==
    /\ pc[p] = "finally" /\ hpc[p] = "none"
    /\ fd' = [fd EXCEPT ![p] = AfterClose(@)]
    /\ locked' = [locked EXCEPT ![p] = FALSE]
    /\ pc' = [pc EXCEPT ![p] = "remove"]
    /\ UNCHANGED <<config_file, thresholds_arg, marker, hpc, exc, bot_token,
                   chat_id, temp_thresholds, temps, notes, evals, sigs,
                   acquired, outcome, exitCode, runs, started, delivered,
                   released>>

\* Lines 169-174: os.remove of the path (FileNotFoundError is caught by line
\* 171), then run() returns, or SystemExit goes on out of run().
RemoveLock(p) ==
    /\ pc[p] = "remove" /\ hpc[p] = "none"
    /\ marker' = AfterRemove(marker)
    /\ pc' = [pc EXCEPT ![p] = "returned"]
    /\ outcome' = [outcome EXCEPT
                     ![p] = CASE exc[p] = "SystemExit" -> @
                              [] exc[p] = "ValueError" -> "FAILED"
                              [] OTHER -> "DONE"]
    /\ released' = IF exc[p] = "SystemExit" THEN released ELSE released + 1
    /\ UNCHANGED <<config_file, thresholds_arg, hpc, exc, fd, locked,
                   bot_token, chat_id, temp_thresholds, temps, notes, evals,
                   sigs, acquired, exitCode, runs, started, delivered>>

\* Line 195 and the end of the script: the interpreter exits with status 0
\* (run() returned, or SystemExit(0) reached the top level).
Finish(p) ==
    /\ pc[p] = "returned" /\ hpc[p] = "none"
    /\ ProcessExit(p, ExitStatus(outcome[p]))
    /\ UNCHANGED <<config_file, thresholds_arg, marker, exc, bot_token,
                   chat_id, temp_thresholds, temps, notes, evals, sigs,
                   acquired, outcome, runs, started, delivered, released>>

(***************************************************************************)
(* Signals: SIGINT and SIGTERM, lines 20-21 and _signal_handler (70-76).   *)
(* The handler runs on top of whatever the process was executing, another  *)
(* run of the handler included; it never returns, so only the innermost    *)
(* frame ever runs.  hpc[p] is "h_send" before and "h_inflight" during the *)
(* requests.get of that frame.                                             *)
(***************************************************************************)
\* A signal is delivered.  Before line 20 the default disposition ends the
\* process (exit status 128 + signum as a shell reports it).
Signal(p) ==
    /\ pc[p] # "exited"
    /\ delivered < MaxSignals
    /\ delivered' = delivered + 1
    /\ sigs' = [sigs EXCEPT ![p] = @ + 1]
    /\ IF Installed(p)
       THEN /\ hpc' = [hpc EXCEPT ![p] = "h_send"]
            /\ UNCHANGED <<pc, fd, locked, exitCode>>
       ELSE \E signum \in Signals : ProcessExit(p, 128 + signum)
    /\ UNCHANGED <<config_file, thresholds_arg, marker, exc, bot_token,
                   chat_id, temp_thresholds, temps, notes, evals, acquired,
                   outcome, runs, started, released>>

\* Lines 71-75 up to the requests.get of the "stopped" notification.
HandlerSend(p) ==
    /\ hpc[p] = "h_send"
    /\ notes' = [notes EXCEPT ![p] = Append(@, Note(StoppedBody))]
    /\ hpc' = [hpc EXCEPT ![p] = "h_inflight"]
    /\ UNCHANGED <<config_file, thresholds_arg, marker, pc, exc, fd, locked,
                   bot_token, chat_id, temp_thresholds, temps, evals, sigs,
                   acquired, outcome, exitCode, runs, started, delivered,
                   released>>

\* send_notification (93-102) returns to the handler, and line 76: exit(0)
\* (one step: a signal between the return and exit(0) acts like one during
\* the request, but for the status of the interrupted request)
\* raises SystemExit through every handler frame and into run() at the
\* position the signal interrupted.
HandlerExit(p) ==
    /\ hpc[p] = "h_inflight"
    /\ \E code \in Statuses :
         notes' = [notes EXCEPT ![p] = Completed(@, code)]
    /\ IF UnwindTo(pc[p]) = "finally"
       THEN /\ pc' = [pc EXCEPT ![p] = "finally"]
            /\ exc' = [exc EXCEPT ![p] = "SystemExit"]
            /\ hpc' = [hpc EXCEPT ![p] = "none"]
            /\ UNCHANGED <<fd, locked, exitCode>>
       ELSE /\ ProcessExit(p, 0)
            /\ UNCHANGED exc
    /\ UNCHANGED <<config_file, thresholds_arg, marker, bot_token, chat_id,
                   temp_thresholds, temps, evals, sigs, acquired, outcome,
                   runs, started, delivered, released>>

(***************************************************************************)
(* The scheduler (cron, a shell) starts the script: a new process.         *)
(***************************************************************************)
Start(p) ==
    /\ pc[p] = "exited"
    /\ started < MaxStarts
    /\ started' = started + 1
    /\ runs' = [runs EXCEPT ![p] = @ + 1]
    /\ pc' = [pc EXCEPT ![p] = "init"]
    /\ exc' = [exc EXCEPT ![p] = "none"]
    /\ fd' = [fd EXCEPT ![p] = "none"]
    /\ bot_token' = [bot_token EXCEPT ![p] = Unset]
    /\ chat_id' = [chat_id EXCEPT ![p] = Unset]
    /\ temp_thresholds' = [temp_thresholds EXCEPT ![p] = Unset]
    /\ temps' = [temps EXCEPT ![p] = <<>>]
    /\ notes' = [notes EXCEPT ![p] = <<>>]
    /\ evals' = [evals EXCEPT ![p] = 0]
    /\ sigs' = [sigs EXCEPT ![p] = 0]
    /\ acquired' = [acquired EXCEPT ![p] = FALSE]
    /\ outcome' = [outcome EXCEPT ![p] = "NONE"]
    /\ exitCode' = [exitCode EXCEPT ![p] = NotExited]
    /\ UNCHANGED <<config_file, thresholds_arg, marker, hpc, locked,
                   delivered, released>>

Next ==
    \E p \in Procs :
        \/ Construct(p)
        \/ OpenLock(p)
        \/ LockF(p)
        \/ ReadTemp(p)
        \/ RetryTemp(p)
        \/ Monitor(p)
        \/ HandleError(p)
        \/ SendReturns(p)
        \/ CloseLock(p)
        \/ RemoveLock(p)
        \/ Finish(p)
        \/ Signal(p)
        \/ HandlerSend(p)
        \/ HandlerExit(p)
        \/ Start(p)

Spec == Init /\ [][Next]_vars

(***************************************************************************)
(* One invocation at a time and no signal: the run cycle of a TempMonitor  *)
(* constructed with any threshold table, with a sensor that reports any of *)
(* AllReadings.  A later invocation takes the place of the ended one.      *)
(***************************************************************************)
InitCycle ==
    /\ thresholds_arg \in TableArgs
    /\ config_file \in ConfigFiles
    /\ marker = NoMarker
    /\ pc = [p \in Procs |-> "exited"]
    /\ hpc = [p \in Procs |-> "none"]
    /\ exc = [p \in Procs |-> "none"]
    /\ fd = [p \in Procs |-> "none"]
    /\ locked = [p \in Procs |-> FALSE]
    /\ bot_token = [p \in Procs |-> Unset]
    /\ chat_id = [p \in Procs |-> Unset]
    /\ temp_thresholds = [p \in Procs |-> Unset]
    /\ temps = [p \in Procs |-> <<>>]
    /\ notes = [p \in Procs |-> <<>>]
    /\ evals = [p \in Procs |-> 0]
    /\ sigs = [p \in Procs |-> 0]
    /\ acquired = [p \in Procs |-> FALSE]
    /\ outcome = [p \in Procs |-> "NONE"]
    /\ exitCode = [p \in Procs |-> NotExited]
    /\ runs = [p \in Procs |-> 0]
    /\ started = 0
    /\ delivered = 0
    /\ released = 0

NextCycle ==
    \E p \in Procs :
        \/ Start(p) /\ \A q \in Procs \ {p} : runs[q] = 0
        \/ Construct(p)
        \/ OpenLock(p)
        \/ LockF(p)
        \/ ReadTempOf(p, AllReadings)
        \/ RetryTempOf(p, AllReadings)
        \/ Monitor(p)
        \/ HandleError(p)
        \/ SendReturns(p)
        \/ CloseLock(p)
        \/ RemoveLock(p)
        \/ Finish(p)

SpecCycle == InitCycle /\ [][NextCycle]_vars

(***************************************************************************)
(* Progress: a started process is scheduled, and each external call it     *)
(* makes (the vcgencmd command, requests.get, sleep) returns, so the step  *)
(* it is at is eventually taken.  Nothing obliges a process to be started  *)
(* or a signal to be sent.                                                 *)
(***************************************************************************)
ProcStep(p) ==
    \/ Construct(p)
    \/ OpenLock(p)
    \/ LockF(p)
    \/ ReadTemp(p)
    \/ RetryTemp(p)
    \/ Monitor(p)
    \/ HandleError(p)
    \/ SendReturns(p)
    \/ CloseLock(p)
    \/ RemoveLock(p)
    \/ Finish(p)
    \/ HandlerSend(p)
    \/ HandlerExit(p)

FairSpec == Spec /\ \A p \in Procs : WF_vars(ProcStep(p))

(***************************************************************************)
(* monitor_temp as a method of its own: a caller that holds a constructed  *)
(* TempMonitor hands it any reading of AllReadings or the absent reading,  *)
(* outside run() and without the lock.  Position "finally" is here the     *)
(* return of monitor_temp to that caller.                                  *)
(***************************************************************************)
\* Line 119: monitor_temp(temp) is entered with the caller's argument.
CallMonitorTemp(p) ==
    /\ pc[p] = "open" /\ hpc[p] = "none"
    /\ \E temp \in AllReadings \cup {None} :
          temps' = [temps EXCEPT ![p] = <<temp>>]
    /\ pc' = [pc EXCEPT ![p] = "monitor"]
    /\ UNCHANGED <<config_file, thresholds_arg, marker, hpc, exc, fd, locked,
                   bot_token, chat_id, temp_thresholds, notes, evals, sigs,
                   acquired, outcome, exitCode, runs, started, delivered,
                   released>>

NextMonitor ==
    \E p \in Procs :
        \/ Start(p) /\ \A q \in Procs \ {p} : runs[q] = 0
        \/ Construct(p)
        \/ CallMonitorTemp(p)
        \/ Monitor(p)
        \/ SendReturns(p)

SpecMonitor == InitCycle /\ [][NextMonitor]_vars

(***************************************************************************)
(* Properties.                                                             *)
(***************************************************************************)
\* run() of p has ended: by return, or with the process.
RunEnded(p) == runs[p] > 0 /\ pc[p] \in {"returned", "exited"}

\* No signal has been delivered to the current invocation of p.
Unsignalled(p) == sigs[p] = 0

Kinds(ns) == { ns[i].body.kind : i \in 1..Len(ns) }

Failed(note) == note.status \in {"http_error", "transport_error"}

\* C1. Mutual exclusion: at most one process at a time is between its
\* successful acquisition (exclusive create plus lockf) and its release
\* (close plus remove), and a process in that span is the creator of the
\* marker that exists; so a process that attempts the acquisition while
\* another holds the marker is not in the read / evaluate / notify phase.
C1_MutualExclusion ==
    /\ \A p, q \in Procs :
          (pc[p] \in InCycle /\ pc[q] \in InCycle) => p = q
    /\ \A p \in Procs : pc[p] \in InCycle => marker = Inode(p)
    /\ \A p \in Procs :
          (marker # NoMarker /\ marker # Inode(p)) =>
              (pc[p] \notin InCycle /\ ~locked[p])

\* One process is inside its cycle while the other one attempted the
\* acquisition and was turned away by the exclusive create.
C1_Witness ==
    \E p, q \in Procs :
        /\ p # q
        /\ pc[p] \in InTry
        /\ pc[q] = "returned" /\ outcome[q] = "SKIPPED" /\ fd[q] = "none"

\* C2. Guaranteed release without signals: when run() has acquired the lock
\* and no signal was delivered, then at the end of run(), whether the cycle
\* completed or raised inside the try statement, the descriptor is closed
\* and the marker this invocation created no longer exists.
C2_ReleaseWithoutSignals ==
    \A p \in Procs :
        (acquired[p] /\ Unsignalled(p) /\ RunEnded(p)) =>
            /\ fd[p] = "closed"
            /\ marker # Inode(p)
            /\ outcome[p] \in {"DONE", "FAILED"}

\* One invocation has returned after a normal cycle and another one after the
\* ValueError of two absent readings, both unsignalled.
C2_Witness ==
    \E p, q \in Procs :
        /\ acquired[p] /\ Unsignalled(p) /\ pc[p] = "returned"
        /\ outcome[p] = "FAILED" /\ exc[p] = "ValueError"
        /\ acquired[q] /\ Unsignalled(q) /\ RunEnded(q)
        /\ outcome[q] = "DONE"

\* C3. Guaranteed release under signals: when a signal was delivered to a
\* process after it created the marker (it cannot have come earlier: the
\* handler never returns) and the process has terminated, the marker it
\* created has been removed.  The invocations whose lockf was refused are
\* left out: their marker stays without any signal.
C3_ReleaseUnderSignals ==
    \A p \in Procs :
        (pc[p] = "exited" /\ sigs[p] > 0 /\ fd[p] # "none"
           /\ outcome[p] # "SKIPPED") =>
            marker # Inode(p)

\* C4. Skip on contention: an invocation that ended SKIPPED (the marker
\* existed at the exclusive create, or lockf was refused) has read no
\* temperature, evaluated no threshold and attempted no notification; the
\* only notification it can make is the handler's, for a signal that came
\* after run() returned.
C4_SkipOnContention ==
    \A p \in Procs :
        outcome[p] = "SKIPPED" =>
            /\ temps[p] = <<>>
            /\ evals[p] = 0
            /\ ~acquired[p]
            /\ Unsignalled(p) => notes[p] = <<>>
            /\ Kinds(notes[p]) \subseteq {"stopped"}

\* One invocation was skipped by the exclusive create and another one by
\* the refusal of lockf.
C4_Witness ==
    \E p, q \in Procs :
        /\ outcome[p] = "SKIPPED" /\ fd[p] = "none" /\ RunEnded(p)
        /\ outcome[q] = "SKIPPED" /\ fd[q] # "none" /\ RunEnded(q)

C6_RetryOnce ==
    \A p \in Procs :
        /\ Len(temps[p]) <= 2
        /\ Len(temps[p]) = 2 => temps[p][1] = None
        /\ (Len(temps[p]) = 1 /\ temps[p][1] = None /\ Unsignalled(p)) =>
              pc[p] = "read2"
        /\ evals[p] <= 1
        /\ evals[p] = 1 => temps[p][Len(temps[p])] # None
        /\ temps[p] = <<None, None>> =>
              /\ evals[p] = 0
              /\ "warning" \notin Kinds(notes[p])
              /\ (Unsignalled(p) /\ RunEnded(p)) =>
                    (outcome[p] = "FAILED" /\ marker # Inode(p)
                       /\ fd[p] = "closed")

\* A cycle with two absent readings has ended.
C6_Witness ==
    \E p \in Procs :
        /\ temps[p] = <<None, None>>
        /\ Unsignalled(p) /\ pc[p] = "returned" /\ outcome[p] = "FAILED"

\* The entries of table T that reading r exceeds.
Exceeded(r, T) == { i \in 1..Len(T) : r[1] > T[i].threshold }

\* C7. First-match evaluation: once monitor_temp(r) has run with table T
\* (in any insertion order), it has attempted exactly one notification,
\* built from the first entry of T in table order with r > threshold, and
\* none when no entry has r > threshold (r equal to a threshold included);
\* never a later entry, never more than one notification.
C7_FirstMatch ==
    \A p \in Procs :
        evals[p] = 1 =>
            LET r == temps[p][Len(temps[p])]
                T == temp_thresholds[p]
                M == Exceeded(r, T)
            IN  /\ r # None
                /\ M = {} => notes[p] = <<>>
                /\ M # {} =>
                      LET first == CHOOSE i \in M : \A j \in M : i <= j
                      IN  /\ Len(notes[p]) = 1
                          /\ notes[p][1].body.kind = "warning"
                          /\ notes[p][1].body.threshold = T[first].threshold
                          /\ notes[p][1].body.message = T[first].message
                          /\ notes[p][1].body.temp = r

\* monitor_temp has reported the first entry of a table in which a later
\* entry, with a higher threshold, is exceeded as well.
C7_Witness ==
    \E p \in Procs :
        /\ evals[p] = 1 /\ Len(notes[p]) = 1
        /\ LET T == temp_thresholds[p]
               r == temps[p][Len(temps[p])]
           IN  /\ Len(T) >= 2
               /\ T[1].threshold < T[2].threshold
               /\ r[1] > T[2].threshold
               /\ notes[p][1].body.threshold = T[1].threshold

\* C8 as stated. Whenever a notification attempt of an unsignalled cycle
\* has failed, it is the only attempt and the cycle ends DONE with the
\* lock released.
C8_NotifyFailureAsStated ==
    \A p \in Procs :
        (Unsignalled(p) /\ RunEnded(p)
           /\ \E i \in 1..Len(notes[p]) : Failed(notes[p][i])) =>
            /\ Len(notes[p]) = 1
            /\ outcome[p] = "DONE"
            /\ marker # Inode(p)

\* C8 as amended. A failed notification attempt (a status other than 200,
\* or RequestException) of an unsignalled cycle is absorbed by
\* send_notification and not retried: it stays the only attempt, the cycle
\* goes on to the finally clause and releases the lock; it ends DONE when
\* the attempt was a threshold warning and FAILED when it was the error
\* notification of the except clause.
C8_NotifyFailure ==
    \A p \in Procs :
        (Unsignalled(p) /\ runs[p] > 0
           /\ \E i \in 1..Len(notes[p]) : Failed(notes[p][i])) =>
            /\ Len(notes[p]) = 1
            /\ pc[p] \in {"finally", "remove", "returned", "exited"}
            /\ exc[p] = (IF notes[p][1].body.kind = "error"
                          THEN "ValueError" ELSE "none")
            /\ RunEnded(p) =>
                  /\ outcome[p] = (IF notes[p][1].body.kind = "error"
                                    THEN "FAILED" ELSE "DONE")
                  /\ marker # Inode(p)
                  /\ fd[p] = "closed"

\* A warning could not be delivered and an error notification was refused,
\* and both cycles have ended.
C8_Witness ==
    \E p, q \in Procs :
        /\ Unsignalled(p) /\ RunEnded(p) /\ Len(notes[p]) = 1
        /\ notes[p][1].body.kind = "warning"
        /\ notes[p][1].status = "transport_error"
        /\ outcome[p] = "DONE"
        /\ Unsignalled(q) /\ RunEnded(q) /\ Len(notes[q]) = 1
        /\ notes[q][1].body.kind = "error"
        /\ notes[q][1].status = "http_error"
        /\ outcome[q] = "FAILED"

\* C9. Lock round-trip: the step that ends a cycle DONE or FAILED leaves no
\* marker file; and when every invocation started before has acquired and
\* released the lock, whether it ended DONE or FAILED, the exclusive create
\* of the next invocation succeeds.
C9_LockRoundTrip ==
    [][ \A p \in Procs :
          /\ (outcome[p] = "NONE" /\ outcome'[p] \in {"DONE", "FAILED"}) =>
                marker' = NoMarker
          /\ (pc[p] = "open" /\ hpc[p] = "none" /\ pc'[p] # "open"
                 /\ released = started - 1) =>
                (pc'[p] = "lockf" /\ marker' = Inode(p) /\ fd'[p] = "open")
      ]_vars

\* After a released cycle a later invocation holds the lock again.
C9_Witness ==
    \E p \in Procs :
        /\ released >= 1 /\ released = started - 1
        /\ pc[p] = "read1" /\ acquired[p] /\ marker = Inode(p)

\* The configurations the claim calls invalid: the section or a key is
\* missing, or a value is empty after the quotes are stripped.
ClaimedInvalid(cf) ==
    \/ ConfigMissing(cf)
    \/ Strip(cf.bot_token) = <<>>
    \/ Strip(cf.chat_id) = <<>>

\* C10. Configuration fail-fast: with an invalid configuration the
\* construction fails, so run() is never reached: no marker is created, no
\* temperature read, no notification attempted, and the process ends with
\* exit code 1 (unless a signal ended it first).
C10_ConfigFailFast ==
    ClaimedInvalid(config_file) =>
        /\ marker = NoMarker
        /\ \A p \in Procs :
              /\ pc[p] \in {"init", "exited"}
              /\ fd[p] = "none" /\ temps[p] = <<>> /\ notes[p] = <<>>
              /\ (pc[p] = "exited" /\ runs[p] > 0 /\ Unsignalled(p)) =>
                    exitCode[p] = 1

\* The "stopped" notification attempts among ns.
Stopped(ns) == SelectSeq(ns, LAMBDA n : n.body.kind = "stopped")

\* C11. One-shot shutdown notification: a process that was signalled once
\* the handlers of lines 20-21 were installed, however often and wherever,
\* has made exactly one "stopped" notification attempt when it terminates,
\* and exits with code 0 whether or not the attempt succeeded.
C11_OneShotStopped ==
    \A p \in Procs :
        (pc[p] = "exited" /\ sigs[p] > 0 /\ bot_token[p] # Unset) =>
            /\ Len(Stopped(notes[p])) = 1
            /\ exitCode[p] = 0

\* C12. Below-threshold cycle: when the reading handed to monitor_temp, the
\* first or the retried one, exceeds no threshold of the table, the cycle
\* (which no signal interrupts) makes no notification attempt, goes on to
\* the finally clause, and ends DONE with the descriptor closed and the
\* marker removed.
C12_BelowThreshold ==
    \A p \in Procs :
        (evals[p] = 1 /\ Unsignalled(p) /\ acquired[p]
           /\ Exceeded(temps[p][Len(temps[p])], temp_thresholds[p]) = {}) =>
            /\ notes[p] = <<>>
            /\ pc[p] \in {"finally", "remove", "returned", "exited"}
            /\ exc[p] = "none"
            /\ RunEnded(p) =>
                  (outcome[p] = "DONE" /\ marker # Inode(p)
                     /\ fd[p] = "closed")

\* A cycle whose retried reading equals the lowest threshold of a
\* non-empty table has ended.
C12_Witness ==
    \E p \in Procs :
        /\ pc[p] = "returned" /\ outcome[p] = "DONE" /\ notes[p] = <<>>
        /\ Len(temps[p]) = 2 /\ temps[p][1] = None
        /\ temp_thresholds[p] # <<>>
        /\ \E i \in 1..Len(temp_thresholds[p]) :
              temps[p][2][1] = temp_thresholds[p][i].threshold

\* C13. Absent-reading short-circuit: monitor_temp called with the absent
\* reading returns at once, for every threshold table: it has made no
\* notification attempt and is at its return, not in a request.
C13_AbsentShortCircuit ==
    \A p \in Procs :
        (evals[p] = 1 /\ temps[p] = <<None>>) =>
            /\ notes[p] = <<>>
            /\ pc[p] = "finally"

\* monitor_temp has returned from a call with the absent reading on an
\* object that holds a table of three entries.
C13_Witness ==
    \E p \in Procs :
        /\ evals[p] = 1 /\ temps[p] = <<None>>
        /\ temp_thresholds[p] # Unset /\ Len(temp_thresholds[p]) = 3

\* The phase of the run cycle that position at stands for; out is the
\* outcome recorded so far.  A process that is not in run() is IDLE until
\* its run() has ended in one of the terminal states.
PhaseOf(at, out) ==
    CASE at \in {"open", "lockf"}          -> "ACQUIRING_LOCK"
      [] at = "read1"                       -> "READING_TEMP"
      [] at = "read2"                       -> "RETRY_READ"
      [] at = "monitor"                     -> "EVALUATING"
      [] at = "warn_inflight"               -> "NOTIFYING"
      [] at \in {"except", "err_inflight"}  -> "FAILING"
      [] at \in {"finally", "remove"}       -> "RELEASING_LOCK"
      [] at \in {"init", "exited", "returned"} ->
            IF at # "init" /\ out # "NONE" THEN out ELSE "IDLE"

\* The edges of the state machine; FAILING is the except clause of lines
\* 160-163 on the way to FAILED, and a terminal state is left only by the
\* next invocation.
PhaseEdges ==
    { <<"IDLE", "ACQUIRING_LOCK">>,
      <<"ACQUIRING_LOCK", "READING_TEMP">>, <<"ACQUIRING_LOCK", "SKIPPED">>,
      <<"READING_TEMP", "RETRY_READ">>, <<"READING_TEMP", "EVALUATING">>,
      <<"RETRY_READ", "EVALUATING">>, <<"RETRY_READ", "FAILING">>,
      <<"EVALUATING", "NOTIFYING">>, <<"EVALUATING", "RELEASING_LOCK">>,
      <<"NOTIFYING", "RELEASING_LOCK">>, <<"FAILING", "RELEASING_LOCK">>,
      <<"RELEASING_LOCK", "DONE">>, <<"RELEASING_LOCK", "FAILED">>,
      <<"DONE", "IDLE">>, <<"SKIPPED", "IDLE">>, <<"FAILED", "IDLE">> }

\* p holds the lock: its marker exists, its descriptor is open and locked.
HoldsLock(held, m, f, p) == held[p] /\ m = Inode(p) /\ f[p] = "open"

\* C14. Run-cycle ordering: every step of an invocation that no signal
\* interrupts follows an edge of IDLE -> ACQUIRING_LOCK -> READING_TEMP ->
\* (RETRY_READ)? -> EVALUATING -> NOTIFYING? -> RELEASING_LOCK -> DONE, or
\* one that ends in SKIPPED or FAILED; DONE is reached only after an
\* evaluation and FAILED only after two absent readings.  For every
\* process, signalled or not: a temperature read and the start of a
\* threshold notification happen with the lock acquired before and still
\* held after the step, and monitor_temp is entered only with a reading
\* that is present.
C14_CycleOrdering ==
    [][\A p \in Procs :
         /\ (sigs'[p] = 0 /\ PhaseOf(pc'[p], outcome'[p])
                                # PhaseOf(pc[p], outcome[p])) =>
               /\ <<PhaseOf(pc[p], outcome[p]), PhaseOf(pc'[p], outcome'[p])>>
                     \in PhaseEdges
               /\ outcome'[p] = "DONE" => evals[p] = 1
               /\ outcome'[p] = "FAILED" =>
                     (evals[p] = 0 /\ temps[p] = <<None, None>>)
         /\ (temps'[p] # temps[p] /\ temps'[p] # <<>>) =>
               /\ acquired[p] /\ HoldsLock(locked, marker, fd, p)
               /\ HoldsLock(locked', marker', fd', p)
         /\ (Len(notes'[p]) > Len(notes[p])
               /\ notes'[p][Len(notes'[p])].body.kind = "warning") =>
               /\ acquired[p] /\ HoldsLock(locked, marker, fd, p)
               /\ HoldsLock(locked', marker', fd', p)
         /\ pc'[p] = "monitor" =>
               (temps'[p] # <<>> /\ temps'[p][Len(temps'[p])] # None)
      ]_vars

\* A cycle that went through every phase of the path, the optional ones
\* included, has ended DONE.
C14_Witness ==
    \E p \in Procs :
        /\ pc[p] = "returned" /\ outcome[p] = "DONE" /\ Unsignalled(p)
        /\ Len(temps[p]) = 2
        /\ Len(notes[p]) = 1 /\ Kinds(notes[p]) = {"warning"}

\* C15, as stated.  Per-cycle call counts: a cycle that acquired the lock
\* and has ended, with no signal delivered, has made exactly one
\* notification request and exactly one temperature read.
C15_CallCountsAsStated ==
    \A p \in Procs :
        (acquired[p] /\ RunEnded(p) /\ Unsignalled(p)) =>
            /\ Len(notes[p]) = 1
            /\ Len(temps[p]) = 1

\* C15, amended.  Per-cycle call counts: a cycle that acquired the lock,
\* with no signal delivered, makes at most one notification request and at
\* most two temperature reads; once it has ended it has made one read, or
\* two exactly when the first reading was absent, and one notification
\* exactly when the reading exceeded a threshold or the cycle FAILED, none
\* otherwise.
C15_CallCounts ==
    \A p \in Procs :
        (acquired[p] /\ Unsignalled(p)) =>
            /\ Len(notes[p]) <= 1
            /\ Len(temps[p]) <= 2
            /\ RunEnded(p) =>
                  /\ Len(temps[p]) \in {1, 2}
                  /\ Len(temps[p]) = 2 <=> temps[p][1] = None
                  /\ Len(notes[p]) = 1 <=>
                        \/ outcome[p] = "FAILED"
                        \/ /\ outcome[p] = "DONE"
                           /\ Exceeded(temps[p][Len(temps[p])],
                                       temp_thresholds[p]) # {}

\* Both deviations from one-and-one: a cycle ended DONE after two reads,
\* and a cycle ended DONE without any notification.
C15_Witness ==
    /\ \E p \in Procs :
          /\ acquired[p] /\ pc[p] = "returned" /\ Unsignalled(p)
          /\ outcome[p] = "DONE" /\ Len(temps[p]) = 2
    /\ \E p \in Procs :
          /\ acquired[p] /\ pc[p] = "returned" /\ Unsignalled(p)
          /\ outcome[p] = "DONE" /\ notes[p] = <<>>

\* C18. No stale lock from a skipped cycle: when run() has returned on the
\* path where its exclusive create succeeded and lockf was refused, the
\* marker it created is gone and its descriptor is closed.
C18_NoStaleLockAfterRefusal ==
    \A p \in Procs :
        (pc[p] = "returned" /\ outcome[p] = "SKIPPED" /\ fd[p] # "none") =>
            /\ marker # Inode(p)
            /\ fd[p] = "closed"

\* C17. Marker ownership: an existing marker is never replaced, and it
\* disappears only by the os.remove of the process that created it in its
\* current run(); a process that attempts its exclusive create while a
\* marker exists, stale or not, leaves the marker as it is, holds no
\* descriptor and no lock, and ends in SKIPPED; until its next invocation
\* it opens and locks nothing and never reaches os.remove.
C17_MarkerOwnership ==
    [][/\ (marker # NoMarker /\ marker' # marker) =>
            /\ marker' = NoMarker
            /\ \E p \in Procs :
                  /\ marker = Inode(p)
                  /\ pc[p] = "remove" /\ pc'[p] = "returned"
       /\ \A p \in Procs :
            /\ (pc[p] = "open" /\ hpc[p] = "none" /\ pc'[p] # "open"
                   /\ marker # NoMarker) =>
                  /\ marker' = marker
                  /\ pc'[p] = "returned" /\ outcome'[p] = "SKIPPED"
                  /\ fd'[p] = "none" /\ ~locked'[p]
            /\ (outcome[p] = "SKIPPED" /\ fd[p] = "none"
                   /\ runs'[p] = runs[p]) =>
                  /\ fd'[p] = "none" /\ ~locked'[p]
                  /\ pc'[p] \in {"returned", "exited"}
                  /\ marker' # marker => marker # Inode(p)
      ]_vars

\* The marker of a process that has ended is still there, and a later
\* invocation of another process was skipped because of it.
C17_Witness ==
    \E p, q \in Procs :
        /\ p # q
        /\ marker = Inode(q) /\ pc[q] = "exited"
        /\ pc[p] = "returned" /\ outcome[p] = "SKIPPED" /\ fd[p] = "none"

Terminal == {"DONE", "SKIPPED", "FAILED"}

\* C16. Termination: every invocation of run() to which no signal is
\* delivered eventually reaches a terminal state among DONE, SKIPPED and
\* FAILED; the terminal state of an invocation, once reached, is never
\* exchanged for another; and in DONE and FAILED the invocation had
\* acquired the lock, its descriptor is closed and the marker it created
\* has been removed.
C16_Termination ==
    /\ \A p \in Procs :
          (pc[p] = "open") ~> (outcome[p] \in Terminal \/ sigs[p] > 0)
    /\ [][\A p \in Procs :
            (outcome[p] \in Terminal /\ runs'[p] = runs[p]) =>
                outcome'[p] = outcome[p]]_vars
    /\ [](\A p \in Procs :
            outcome[p] \in {"DONE", "FAILED"} =>
                (acquired[p] /\ marker # Inode(p) /\ fd[p] = "closed"))

\* Two invocations that no signal interrupted have ended, one FAILED with
\* its marker removed and one SKIPPED.
C16_Witness ==
    \E p, q \in Procs :
        /\ pc[p] = "returned" /\ outcome[p] = "FAILED" /\ Unsignalled(p)
        /\ pc[q] = "returned" /\ outcome[q] = "SKIPPED" /\ Unsignalled(q)
        /\ marker = NoMarker

====
